---- MODULE Spec2Model ----
(***************************************************************************)
(* PoseLab capture-intake gateways (GigaPose/websocket.py,                 *)
(* OVE6D/websocket_server.py, MegaPose/websocket_server.py).               *)
(*                                                                         *)
(* One gateway process serves several websocket connections on a single    *)
(* asyncio event loop.  Each connection runs handler(ws): it reads a       *)
(* header, a color frame and a depth frame, stages the capture under       *)
(* EXPORT_ROOT/000000/0, runs pipeline.py with subprocess.run, normalizes  *)
(* the result artifact and sends one reply.                                *)
(***************************************************************************)
EXTENDS Integers, Sequences, FiniteSets, TLC

\* ---------------------------------------------------------------- bounds
NumConns == 2
MaxFrames == 6
MaxInbox == 1
MaxIoFaults == 1
MaxDisconnects == 1

Conns == 1..NumConns
Backends == {"GigaPose", "OVE6D", "MegaPose"}

VARIABLES
    backend,    \* which of the three gateway scripts this process runs
    link,       \* per connection: "none", "open", "client_closed", "closed"
    pc,         \* per connection: position of handler(ws)
    inbox,      \* per connection: frames sent by the client, not yet recv()'d
    nsent,      \* number of frames the clients have sent
    hdr,        \* handler local hdr (parsed header of the current session)
    rgb,        \* handler local rgb_bytes (the frame as received)
    depth,      \* handler local depth_bytes (the frame as received)
    session,    \* per connection: number of headers read so far
    loop,       \* connection whose handler occupies the event-loop thread, 0 if none
    proc,       \* per connection: the pipeline process it last started
    artifact,   \* per connection: the result artifact its pipeline run left
    fs,         \* files under EXPORT_ROOT/000000/0
    pose,       \* value returned by estimate_pose, not yet sent
    outbox,     \* per connection: outbound frames delivered to the client
    fault,      \* per connection: exception that left handler(ws)
    trace,      \* per connection: frames read since the last reply, in order
    ioFaults,   \* number of I/O errors the filesystem has raised
    ndisc,      \* number of clients that have closed their end
    clients     \* the connections whose client ever connects

vars == <<backend, link, pc, inbox, nsent, hdr, rgb, depth, session, loop,
          proc, artifact, fs, pose, outbox, fault, trace, ioFaults, ndisc, clients>>

\* One run of a pipeline.py process (GigaPose/pipeline.py or
\* FoundationPose/pipeline.py), from argument parsing to exit.
VARIABLES
    script,      \* which pipeline.py runs: "GigaPose" or "FoundationPose"
    args,        \* the parsed command line
    step,        \* index of the next step of main()
    running,     \* the external command subprocess.run is waiting for, or "none"
    invoked,     \* the external commands invoked so far, in order
    exitStatus,  \* exit status of the pipeline process, NotExited while it runs
    now,         \* what time.time() returns
    global_start,\* main()'s local global_start
    timings,     \* main()'s local dict timings
    disk,        \* the files the run reads and writes
    writes,      \* number of times the run has written timings.json
    began,       \* per stage: when the run entered it
    ended        \* per stage: when the run left it

pipe == <<script, args, step, running, invoked, exitStatus, now, global_start,
          timings, disk, writes, began, ended>>

\* No pipeline process is modelled.
NoPipeline ==
    /\ script = "none"
    /\ args = << >>
    /\ step = 0
    /\ running = "none"
    /\ invoked = << >>
    /\ exitStatus = 0
    /\ now = 0
    /\ global_start = 0
    /\ timings = << >>
    /\ disk = << >>
    /\ writes = 0
    /\ began = << >>
    /\ ended = << >>

\* One call of a pose-math function: rotation_matrix_to_quaternion,
\* quat_to_rotm applied to its result, or read_intrinsics_txt.
VARIABLES
    called,      \* the function applied, "none" if no call is modelled
    given,       \* its argument
    returned     \* what it returned or raised

calc == <<called, given, returned>>

\* No pose-math call is modelled.
NoCalc ==
    /\ called = "none"
    /\ given = << >>
    /\ returned = << >>

\* ---------------------------------------------------------------- frames
\* A websocket message is either bytes or str; a str message is JSON or not,
\* and a JSON header carries or omits each field the handler reads.
\* camK is the length of the header's "camK" list and K the list itself.
BytesFrame == [type |-> "bytes", json |-> FALSE, camK |-> 0, K |-> << >>,
               objectType |-> FALSE, sceneName |-> FALSE, gt |-> FALSE]

Header(K, obj, scn, gt) ==
    [type |-> "text", json |-> TRUE, camK |-> Len(K), K |-> K,
     objectType |-> obj, sceneName |-> scn, gt |-> gt]

PlainText == [type |-> "text", json |-> FALSE, camK |-> 0, K |-> << >>,
              objectType |-> FALSE, sceneName |-> FALSE, gt |-> FALSE]

\* Intrinsics a client may send, row-major: values a binary32 float holds
\* exactly (client_test.py sends float32 values), values that need more
\* precision than binary32 has, and a list of eight values.
PinholeK == <<525, 0, 320, 0, 525, 240, 0, 0, 1>>
PreciseK == <<16777217, 0, 320, 0, 16777219, 240, 0, 0, 1>>
ShortK == <<525, 0, 320, 0, 525, 240, 0, 0>>

Frames ==
    { BytesFrame, PlainText,
      Header(PinholeK, TRUE, TRUE, TRUE),     \* the Unity client's full header
      Header(PinholeK, TRUE, FALSE, FALSE),   \* client_test.py: no sceneName
      Header(PreciseK, FALSE, FALSE, FALSE),  \* camK only
      Header(ShortK, TRUE, TRUE, FALSE) }     \* camK that is not 9 values

NoFrame == [type |-> "none", json |-> FALSE, camK |-> 0, K |-> << >>,
            objectType |-> FALSE, sceneName |-> FALSE, gt |-> FALSE]

IsBytes(f) == f.type = "bytes"

NoFault == [exc |-> "none", at |-> "none"]
Raised(e, where) == [exc |-> e, at |-> where]

\* ---------------------------------------------------------------- poses
Pose(p, r) == [position |-> p, rotation |-> r]
NoPose == Pose(<<>>, <<>>)

ZeroVec == <<0, 0, 0>>
IdentityQuat == <<0, 0, 0, 1>>
IdentityMat == <<1, 0, 0, 0, 1, 0, 0, 0, 1>>
ZeroMat == <<0, 0, 0, 0, 0, 0, 0, 0, 0>>
RotZ90 == <<0, -1, 0, 1, 0, 0, 0, 0, 1>>

\* return {"position": [0,0,0], "rotation": [0,0,0,1]}
FallbackPose == Pose(ZeroVec, IdentityQuat)

Returned(p) == [exc |-> "none", pose |-> p]
Threw(e) == [exc |-> e, pose |-> NoPose]

\* ------------------------------------------------------ result artifacts
\* What the pipeline process may leave at the path estimate_pose reads.
\* kind "missing": no file; "empty": a file with no content.
Missing == [kind |-> "missing"]
Empty == [kind |-> "empty"]

\* predictions.csv: the first data row; a column is absent, non-numeric or
\* a sequence of numbers.
Column(has, num, vals) == [has |-> has, num |-> num, vals |-> vals]
CsvRow(R, t) == [kind |-> "csv", R |-> R, t |-> t]

\* 0.npz: arrays "poses" and "scores" (hypotheses of the first instance);
\* a hypothesis is the translation and the 3x3 block of its 4x4 matrix.
Hyp(t, R) == [t |-> t, R |-> R]
Npz(hasPoses, hasScores, poses, scores) ==
    [kind |-> "npz", hasPoses |-> hasPoses, hasScores |-> hasScores,
     poses |-> poses, scores |-> scores]

\* object_data.json: a list of records {label, TWO: [quat, trans]}.
Entry(label, hasTWO, quat, trans) ==
    [label |-> label, hasTWO |-> hasTWO, quat |-> quat, trans |-> trans]
ObjectData(entries) == [kind |-> "json", entries |-> entries]

Artifacts(b) ==
    IF b = "OVE6D" THEN
        { Missing, Empty,
          CsvRow(Column(FALSE, FALSE, <<>>), Column(TRUE, TRUE, <<1, 2, 3>>)),
          CsvRow(Column(TRUE, FALSE, <<>>), Column(TRUE, TRUE, <<1, 2, 3>>)),
          CsvRow(Column(TRUE, TRUE, RotZ90), Column(TRUE, TRUE, <<1, 2, 3>>)) }
    ELSE IF b = "GigaPose" THEN
        { Missing, Empty,
          Npz(FALSE, TRUE, <<>>, <<5>>),
          Npz(TRUE, FALSE, <<Hyp(<<1, 2, 3>>, RotZ90)>>, <<>>),
          Npz(TRUE, TRUE,
              <<Hyp(<<1, 1, 1>>, IdentityMat), Hyp(<<1, 2, 3>>, RotZ90),
                Hyp(<<2, 2, 2>>, IdentityMat)>>,
              <<2, 9, 5>>),
          Npz(TRUE, TRUE,
              <<Hyp(<<1, 1, 1>>, IdentityMat), Hyp(<<1, 2, 3>>, RotZ90),
                Hyp(<<2, 2, 2>>, IdentityMat)>>,
              <<2, 9, 9>>) }
    ELSE
        { Missing, Empty,
          ObjectData(<<Entry("crankcase", TRUE, <<0, 0, 0, 1>>, <<1, 2, 3>>)>>),
          ObjectData(<<Entry("barbecue-sauce", FALSE, <<>>, <<>>)>>),
          ObjectData(<<Entry("barbecue-sauce", TRUE, <<0, 0, 1>>, <<1, 2, 3>>)>>),
          ObjectData(<<Entry("barbecue-sauce", TRUE, <<0, 0, 0, 0>>, <<1, 2, 3>>)>>),
          ObjectData(<<Entry("crankcase", TRUE, <<0, 0, 0, 1>>, <<9, 9, 9>>),
                       Entry("barbecue-sauce", TRUE, <<1, 1, 1, 1>>, <<1, 2, 3>>)>>) }

\* --------------------------------------------------------- normalization
\* Mutant: the last index holding the maximum.
ArgMax_Last(scores) ==
    CHOOSE i \in 1..Len(scores) :
        /\ \A j \in 1..Len(scores) : scores[j] <= scores[i]
        /\ \A j \in (i + 1)..Len(scores) : scores[j] < scores[i]

\* int(np.argmax(scores)): the first index holding the maximum.
ArgMax(scores) ==
    CHOOSE i \in 1..Len(scores) :
        /\ \A j \in 1..Len(scores) : scores[j] <= scores[i]
        /\ \A j \in 1..(i - 1) : scores[j] < scores[i]

\* math.sqrt on the squared norms the artifacts carry (perfect squares).
Sqrt(n2) == CHOOSE k \in 0..n2 : k * k = n2

\* quat_to_rotm(q), q = [x,y,z,w]: x/n, y/n, z/n, w/n and then the bilinear
\* terms.  A product of two normalized components is (a*b)/(n*n); the
\* artifacts' quaternions make every entry an integer.
QuatToRotm(q) ==
    LET x == q[1]
        y == q[2]
        z == q[3]
        w == q[4]
        n == Sqrt(x * x + y * y + z * z + w * w)
        nn == n * n
        One(a) == (nn - 2 * a) \div nn
        Two(a) == (2 * a) \div nn
    IN  << One(y * y + z * z), Two(x * y - w * z), Two(x * z + w * y),
           Two(x * y + w * z), One(x * x + z * z), Two(y * z - w * x),
           Two(x * z - w * y), Two(y * z + w * x), One(x * x + y * y) >>

QuatNorm(q) == Sqrt(q[1] * q[1] + q[2] * q[2] + q[3] * q[3] + q[4] * q[4])

Scale(v, k) == [i \in 1..Len(v) |-> v[i] * k]

\* Mutant: the CalledProcessError is not caught.
OnPipelineFailed_Uncaught(b) == Threw("CalledProcessError")

\* except subprocess.CalledProcessError: the value estimate_pose returns.
OnPipelineFailed(b) == Returned(FallbackPose)

\* OVE6D estimate_pose, after the pipeline exited 0.
NormalizeCsv(a) ==
    IF a.kind = "missing" THEN Returned(Pose(ZeroVec, ZeroMat))
    ELSE IF a.kind = "empty" THEN Returned(FallbackPose)
    ELSE IF ~a.R.has THEN Threw("KeyError")
    ELSE IF ~a.R.num THEN Threw("ValueError")
    ELSE IF ~a.t.has THEN Threw("KeyError")
    ELSE IF ~a.t.num THEN Threw("ValueError")
    ELSE Returned(Pose(a.t.vals, a.R.vals))

\* GigaPose estimate_pose, after the pipeline exited 0.
NormalizeNpz(a) ==
    IF a.kind = "missing" THEN Returned(FallbackPose)
    ELSE IF a.kind = "empty" THEN Threw("EOFError")
    ELSE IF ~a.hasPoses THEN Threw("KeyError")
    ELSE IF ~a.hasScores THEN Threw("KeyError")
    ELSE IF Len(a.scores) = 0 THEN Threw("ValueError")
    ELSE LET best == a.poses[ArgMax(a.scores)]
         IN  Returned(Pose(best.t, best.R))

\* The first entry whose label is "barbecue-sauce", 0 if there is none.
FindEntry(entries) ==
    IF \E i \in 1..Len(entries) : entries[i].label = "barbecue-sauce"
    THEN CHOOSE i \in 1..Len(entries) :
            /\ entries[i].label = "barbecue-sauce"
            /\ \A j \in 1..(i - 1) : entries[j].label # "barbecue-sauce"
    ELSE 0

\* MegaPose estimate_pose, after the pipeline exited 0.
NormalizeJson(a) ==
    IF a.kind = "missing" THEN Returned(FallbackPose)
    ELSE IF a.kind = "empty" THEN Threw("JSONDecodeError")
    ELSE LET i == FindEntry(a.entries)
         IN  IF i = 0 THEN Returned(FallbackPose)
             ELSE IF ~a.entries[i].hasTWO THEN Threw("KeyError")
             ELSE IF Len(a.entries[i].quat) # 4 \/ Len(a.entries[i].trans) # 3
                  THEN Returned(FallbackPose)
             ELSE IF QuatNorm(a.entries[i].quat) = 0 THEN Threw("ZeroDivisionError")
             ELSE Returned(Pose(Scale(a.entries[i].trans, 1000),
                                QuatToRotm(a.entries[i].quat)))

Normalize(b, a) ==
    IF b = "OVE6D" THEN NormalizeCsv(a)
    ELSE IF b = "GigaPose" THEN NormalizeNpz(a)
    ELSE NormalizeJson(a)

\* subprocess.run(cmd, check=True) with cmd holding object_type and
\* scene_name: a None argument raises TypeError before any process starts.
\* GigaPose catches it (except Exception) and then evaluates the undefined
\* name ws; the other two gateways do not catch it.
LaunchError(b, h) ==
    IF h.objectType /\ h.sceneName THEN "none"
    ELSE IF b = "GigaPose" THEN "NameError"
    ELSE "TypeError"

\* ---------------------------------------------------------------- staging
\* scene_folder = EXPORT_ROOT/000000/0 for every session of every connection.
Files ==
    { "SAM6D/rgb.png", "SAM6D/depth.png", "SAM6D/camera.json",
      "FoundationPose/rgb/000000.png", "FoundationPose/depth/000000.png",
      "FoundationPose/cam_K.txt", "FoundationPose/mesh/obj_000001.ply",
      "MegaPose/inputs/image_rgb.png", "MegaPose/inputs/image_depth.png",
      "MegaPose/image_rgb.png", "MegaPose/image_depth.png",
      "MegaPose/camera_data.json",
      "GT/scene_gt.json", "GT/scene_gt_info.json" }

\* A file is absent, empty (opened for writing, nothing written) or holds
\* what session <<connection, index>> wrote.
NoSession == <<0, 0>>

\* What a staged file holds: the bytes of the color or the depth frame, the
\* intrinsics in the file's format, a ground-truth blob or the mesh.
Content(kind, K) == [kind |-> kind, K |-> K]
NoContent == Content("none", << >>)

Absent == [state |-> "absent", by |-> NoSession, data |-> NoContent]
Truncated == [state |-> "empty", by |-> NoSession, data |-> NoContent]
Written(tag, content) == [state |-> "written", by |-> tag, data |-> content]

\* np.float32(x) for an integer x below 2^25: exact up to 2^24, beyond it
\* the nearest even integer, a tie going to the even mantissa.
Float32(x) ==
    IF x <= 16777216 THEN x
    ELSE IF x % 2 = 0 THEN x
    ELSE IF (x \div 2) % 2 = 0 THEN 2 * (x \div 2)
    ELSE 2 * ((x \div 2) + 1)

\* Mutant: the nine values are laid out column by column.
Reshape_ColumnMajor(K) ==
    << <<K[1], K[4], K[7]>>, <<K[2], K[5], K[8]>>, <<K[3], K[6], K[9]>> >>

\* reshape((3,3)) of nine values: three rows, row-major.
Reshape(K) == << SubSeq(K, 1, 3), SubSeq(K, 4, 6), SubSeq(K, 7, 9) >>

\* camK.flatten().tolist()
Flatten(M) == M[1] \o M[2] \o M[3]

\* camK = np.array(hdr["camK"], np.float32).reshape((3,3))
CamK(h) == Reshape([i \in 1..Len(h.K) |-> Float32(h.K[i])])

\* One write of a save_* function: open(file, mode) then f.write(data);
\* data is "bytes" or "text" (a str), the type of the value written, and
\* content what the value is.
W(file, mode, data, content) ==
    [file |-> file, mode |-> mode, data |-> data, content |-> content]

\* camera.json: {"cam_K": camK.flatten().tolist(), "depth_scale": 1.0}
save_sam6d_raw(r, d, camK) ==
    << W("SAM6D/rgb.png", "wb", r, Content("color", << >>)),
       W("SAM6D/depth.png", "wb", d, Content("depth", << >>)),
       W("SAM6D/camera.json", "w", "text", Content("cam_K", Flatten(camK))) >>

\* cam_K.txt: one line per row of camK.reshape(3,3), each value printed
\* with 18 decimals, which determines a binary32 value.  Only
\* GigaPose/websocket.py copies the mesh, when the header names an object
\* type and the asset store holds its mesh.
save_foundation_raw(b, h, r, d, camK, meshInStore) ==
    << W("FoundationPose/rgb/000000.png", "wb", r, Content("color", << >>)),
       W("FoundationPose/depth/000000.png", "wb", d, Content("depth", << >>)),
       W("FoundationPose/cam_K.txt", "w", "text", Content("lines", camK)) >>
    \o (IF b = "GigaPose" /\ h.objectType /\ meshInStore
        THEN << W("FoundationPose/mesh/obj_000001.ply", "wb", "bytes",
                  Content("mesh", << >>)) >>
        ELSE << >>)

\* camera_data.json: {"K": camK.reshape(3,3).tolist(), "resolution": ...}
save_megapose_raw(r, d, camK) ==
    << W("MegaPose/inputs/image_rgb.png", "wb", r, Content("color", << >>)),
       W("MegaPose/inputs/image_depth.png", "wb", d, Content("depth", << >>)),
       W("MegaPose/image_rgb.png", "wb", r, Content("color", << >>)),
       W("MegaPose/image_depth.png", "wb", d, Content("depth", << >>)),
       W("MegaPose/camera_data.json", "w", "text", Content("K", camK)) >>

save_gt(h) ==
    IF h.gt
    THEN << W("GT/scene_gt.json", "w", "text", Content("sceneGtJson", << >>)),
            W("GT/scene_gt_info.json", "w", "text",
              Content("sceneGtInfoJson", << >>)) >>
    ELSE << >>

\* The writes of one session's staging, in the handler's order.
StageWrites(b, h, r, d, meshInStore) ==
    save_sam6d_raw(r, d, CamK(h))
        \o save_foundation_raw(b, h, r, d, CamK(h), meshInStore)
        \o save_megapose_raw(r, d, CamK(h)) \o save_gt(h)

\* Mutant: a str is written to a binary file as if it were bytes.
WriteError_Lenient(mode, data) == "none"

\* f.write(data) on a file opened in mode: a str written to a binary file
\* raises TypeError.
WriteError(mode, data) ==
    IF mode = "wb" /\ data # "bytes" THEN "TypeError" ELSE "none"

\* Runs the writes ws[i..] on files f for session tag.  failAt is the write
\* whose open() raises OSError (0: none): the file is left as it was.
RECURSIVE RunWrites(_, _, _, _, _)
RunWrites(f, ws, i, tag, failAt) ==
    IF i > Len(ws) THEN [fs |-> f, exc |-> "none"]
    ELSE IF failAt = i THEN [fs |-> f, exc |-> "OSError"]
    ELSE IF WriteError(ws[i].mode, ws[i].data) # "none"
         THEN [fs |-> [f EXCEPT ![ws[i].file] = Truncated],
               exc |-> WriteError(ws[i].mode, ws[i].data)]
    ELSE RunWrites([f EXCEPT ![ws[i].file] = Written(tag, ws[i].content)], ws, i + 1,
                   tag, failAt)

\* The files pipeline.py reads from the staged capture.
PipelineInputs ==
    { "SAM6D/rgb.png", "SAM6D/depth.png", "SAM6D/camera.json",
      "FoundationPose/rgb/000000.png", "FoundationPose/depth/000000.png",
      "FoundationPose/cam_K.txt",
      "MegaPose/inputs/image_rgb.png", "MegaPose/inputs/image_depth.png",
      "MegaPose/image_rgb.png", "MegaPose/image_depth.png",
      "MegaPose/camera_data.json" }

\* ------------------------------------------------------------- the server
\* The gateway variables before any client has connected.
GatewayState(bs) ==
    /\ backend \in bs
    /\ link = [c \in Conns |-> "none"]
    /\ pc = [c \in Conns |-> "idle"]
    /\ inbox = [c \in Conns |-> << >>]
    /\ nsent = 0
    /\ hdr = [c \in Conns |-> NoFrame]
    /\ rgb = [c \in Conns |-> "none"]
    /\ depth = [c \in Conns |-> "none"]
    /\ session = [c \in Conns |-> 0]
    /\ loop = 0
    /\ proc = [c \in Conns |-> "none"]
    /\ artifact = [c \in Conns |-> Missing]
    /\ fs = [f \in Files |-> Absent]
    /\ pose = [c \in Conns |-> NoPose]
    /\ outbox = [c \in Conns |-> << >>]
    /\ fault = [c \in Conns |-> NoFault]
    /\ trace = [c \in Conns |-> << >>]
    /\ ioFaults = 0
    /\ ndisc = 0

Started == GatewayState(Backends) /\ NoPipeline /\ NoCalc

\* The pipeline was started from a shell: there is no gateway.
NoGateway == GatewayState({"none"}) /\ clients = {}

\* The gateway has started; any client may connect.
Init == Started /\ clients = Conns

\* The gateway has started and serves a single client.
InitOne == Started /\ clients = {1}

\* Mutant: the pipeline is awaited without blocking the thread, so a handler
\* resumes whatever the others are doing.
LoopFree_Async(c) == TRUE

\* asyncio runs every handler on one thread: a handler resumes from an
\* await only while no other handler occupies the thread.
LoopFree(c) == loop = 0

\* while True: after the reply the handler reads the next header.
AfterReply == "await_header"

\* Mutant: the next header is read while the reply is still to be sent.
HeaderPoint_Pipelined(c) == pc[c] \in {"await_header", "send"}

\* hdr_msg = await ws.recv() is the first statement of the loop body: the
\* handler reads a header only at the top of the loop.
HeaderPoint(c) == pc[c] = "await_header"

Event(what, type) == <<what, type>>

\* The handler's locals of the session that is over.
ForgetSession(c) ==
    /\ hdr' = [hdr EXCEPT ![c] = NoFrame]
    /\ rgb' = [rgb EXCEPT ![c] = "none"]
    /\ depth' = [depth EXCEPT ![c] = "none"]
    /\ trace' = [trace EXCEPT ![c] = << >>]
    /\ artifact' = [artifact EXCEPT ![c] = Missing]
    /\ pose' = [pose EXCEPT ![c] = NoPose]

SameSession == UNCHANGED <<hdr, rgb, depth, trace, artifact, pose>>

\* handler(ws) ends: by return, by websockets.ConnectionClosed or by an
\* exception nothing catches.  The library closes this connection only.
EndHandler(c, f) ==
    /\ pc' = [pc EXCEPT ![c] = "done"]
    /\ link' = [link EXCEPT ![c] = "closed"]
    /\ fault' = [fault EXCEPT ![c] = f]
    /\ inbox' = [inbox EXCEPT ![c] = << >>]
    /\ proc' = [proc EXCEPT ![c] = "none"]
    /\ ForgetSession(c)

\* websockets.serve(handler, ...): a client connects and its handler starts.
ClientConnect(c) ==
    /\ LoopFree(c)
    /\ c \in clients
    /\ link[c] = "none"
    /\ link' = [link EXCEPT ![c] = "open"]
    /\ pc' = [pc EXCEPT ![c] = "await_header"]
    /\ SameSession
    /\ UNCHANGED <<calc, pipe, proc, clients, backend, inbox, nsent, session, loop, fs, outbox, fault,
                   ioFaults, ndisc>>

\* The client sends any frame at any time.
ClientSend(c, f) ==
    /\ link[c] = "open"
    /\ nsent < MaxFrames
    /\ Len(inbox[c]) < MaxInbox
    /\ inbox' = [inbox EXCEPT ![c] = Append(@, f)]
    /\ nsent' = nsent + 1
    /\ SameSession
    /\ UNCHANGED <<calc, pipe, proc, clients, backend, link, pc, session, loop, fs, outbox, fault,
                   ioFaults, ndisc>>

\* The client closes its end.
ClientDisconnect(c) ==
    /\ link[c] = "open"
    /\ ndisc < MaxDisconnects
    /\ link' = [link EXCEPT ![c] = "client_closed"]
    /\ ndisc' = ndisc + 1
    /\ SameSession
    /\ UNCHANGED <<calc, pipe, proc, clients, backend, pc, inbox, nsent, session, loop, fs, outbox, fault,
                   ioFaults>>

\* What reading the header frame f does: "return", an exception, or "ok".
HeaderOutcome(f) ==
    IF IsBytes(f) THEN Raised("return", "header")
    ELSE IF ~f.json THEN Raised("JSONDecodeError", "header")
    ELSE IF f.camK = 0 THEN Raised("KeyError", "header")
    ELSE IF f.camK # 9 THEN Raised("ValueError", "reshape")
    ELSE NoFault

\* hdr_msg = await ws.recv(); json.loads; np.array(hdr["camK"]).reshape((3,3))
RecvHeader(c) ==
    /\ LoopFree(c)
    /\ HeaderPoint(c)
    /\ inbox[c] # << >>
    /\ LET f == Head(inbox[c])
           out == HeaderOutcome(f)
       IN  IF out = NoFault
           THEN /\ hdr' = [hdr EXCEPT ![c] = f]
                /\ trace' = [trace EXCEPT ![c] = Append(@, Event("header", f.type))]
                /\ session' = [session EXCEPT ![c] = @ + 1]
                /\ pc' = [pc EXCEPT ![c] = "await_color"]
                /\ inbox' = [inbox EXCEPT ![c] = Tail(@)]
                /\ UNCHANGED <<link, fault, rgb, depth, proc, artifact, pose>>
           ELSE /\ EndHandler(c, out)
                /\ UNCHANGED session
    /\ UNCHANGED <<calc, pipe, clients, backend, nsent, loop, fs, outbox, ioFaults, ndisc>>

\* rgb_bytes = await ws.recv(): no type check.
RecvColor(c) ==
    /\ LoopFree(c)
    /\ pc[c] = "await_color"
    /\ inbox[c] # << >>
    /\ rgb' = [rgb EXCEPT ![c] = Head(inbox[c]).type]
    /\ trace' = [trace EXCEPT ![c] = Append(@, Event("color", Head(inbox[c]).type))]
    /\ inbox' = [inbox EXCEPT ![c] = Tail(@)]
    /\ pc' = [pc EXCEPT ![c] = "await_depth"]
    /\ UNCHANGED <<calc, pipe, clients, backend, link, nsent, hdr, depth, session, loop, proc,
                   artifact, fs, pose, outbox, fault, ioFaults, ndisc>>

\* depth_bytes = await ws.recv(): no type check; from here to the reply's
\* await the handler runs without suspending.
RecvDepth(c) ==
    /\ LoopFree(c)
    /\ pc[c] = "await_depth"
    /\ inbox[c] # << >>
    /\ depth' = [depth EXCEPT ![c] = Head(inbox[c]).type]
    /\ trace' = [trace EXCEPT ![c] = Append(@, Event("depth", Head(inbox[c]).type))]
    /\ inbox' = [inbox EXCEPT ![c] = Tail(@)]
    /\ pc' = [pc EXCEPT ![c] = "staging"]
    /\ loop' = c
    /\ UNCHANGED <<calc, pipe, clients, backend, link, nsent, hdr, rgb, session, proc, artifact, fs,
                   pose, outbox, fault, ioFaults, ndisc>>

\* await ws.recv() on a connection the client closed, nothing queued:
\* websockets.ConnectionClosed, caught by the handler.
RecvClosed(c) ==
    /\ LoopFree(c)
    /\ pc[c] \in {"await_header", "await_color", "await_depth"}
    /\ inbox[c] = << >>
    /\ link[c] = "client_closed"
    /\ EndHandler(c, Raised("ConnectionClosed", "recv"))
    /\ UNCHANGED <<calc, pipe, clients, backend, nsent, session, loop, fs, outbox, ioFaults, ndisc>>

SessionTag(c) == <<c, session[c]>>

\* os.makedirs and the four save_* calls of the handler.
Stage(c) ==
    /\ loop = c
    /\ pc[c] = "staging"
    /\ \E meshInStore \in BOOLEAN :
       \E ws \in {StageWrites(backend, hdr[c], rgb[c], depth[c], meshInStore)} :
           \E failAt \in 0..Len(ws) :
           /\ failAt # 0 => ioFaults < MaxIoFaults
           /\ \E res \in {RunWrites(fs, ws, 1, SessionTag(c), failAt)} :
                  /\ fs' = res.fs
                  /\ ioFaults' = IF res.exc = "OSError"
                                 THEN ioFaults + 1 ELSE ioFaults
                  /\ IF res.exc = "none"
                     THEN /\ pc' = [pc EXCEPT ![c] = "launch"]
                          /\ SameSession
                          /\ UNCHANGED <<link, fault, inbox, loop, proc>>
                     ELSE /\ EndHandler(c, Raised(res.exc, "stage"))
                          /\ loop' = 0
    /\ UNCHANGED <<calc, pipe, clients, backend, nsent, session, outbox, ndisc>>

\* estimate_pose up to subprocess.run(cmd, check=True): the pipeline process
\* starts and the event-loop thread blocks until it exits.
Launch(c) ==
    /\ loop = c
    /\ pc[c] = "launch"
    /\ IF LaunchError(backend, hdr[c]) = "none"
       THEN /\ proc' = [proc EXCEPT ![c] = "running"]
            /\ pc' = [pc EXCEPT ![c] = "pipeline"]
            /\ UNCHANGED <<link, fault, inbox, loop, hdr, rgb, depth, trace,
                           artifact, pose>>
       ELSE /\ EndHandler(c, Raised(LaunchError(backend, hdr[c]), "launch"))
            /\ loop' = 0
    /\ UNCHANGED <<calc, pipe, clients, backend, nsent, session, fs, outbox, ioFaults, ndisc>>

\* The pipeline process exits; with status 0 it has left any artifact at the
\* result path.
PipelineExit(c) ==
    /\ proc[c] = "running"
    /\ \/ /\ proc' = [proc EXCEPT ![c] = "failed"]
          /\ UNCHANGED artifact
       \/ /\ proc' = [proc EXCEPT ![c] = "exit0"]
          /\ \E a \in Artifacts(backend) :
                artifact' = [artifact EXCEPT ![c] = a]
    /\ UNCHANGED <<calc, pipe, clients, backend, link, pc, inbox, nsent, hdr, rgb, depth, session,
                   loop, fs, pose, outbox, fault, trace, ioFaults, ndisc>>

\* What estimate_pose does once subprocess.run is over.
EstimateOutcome(b, status, a) ==
    IF status = "failed" THEN OnPipelineFailed(b) ELSE Normalize(b, a)

\* subprocess.run returns or raises CalledProcessError; estimate_pose reads
\* the artifact and returns the pose, or an exception leaves the handler.
Estimate(c) ==
    /\ loop = c
    /\ pc[c] = "pipeline"
    /\ proc[c] \in {"failed", "exit0"}
    /\ LET out == EstimateOutcome(backend, proc[c], artifact[c])
       IN  IF out.exc = "none"
           THEN /\ pose' = [pose EXCEPT ![c] = out.pose]
                /\ pc' = [pc EXCEPT ![c] = "send"]
                /\ UNCHANGED <<link, fault, inbox, proc, artifact, hdr, rgb,
                               depth, trace>>
           ELSE EndHandler(c, Raised(out.exc, "normalize"))
    /\ loop' = 0
    /\ UNCHANGED <<calc, pipe, clients, backend, nsent, session, fs, outbox, ioFaults, ndisc>>

\* Mutant: a frame sent after the client closed its end is still delivered.
Delivers_Always(c) == TRUE

\* ws.send delivers a frame only on a connection that is still open.
Delivers(c) == link[c] = "open"

\* await ws.send(json.dumps(pose)); on a connection the client closed it
\* raises websockets.ConnectionClosed and nothing is delivered.
Send(c) ==
    /\ LoopFree(c)
    /\ pc[c] = "send"
    /\ IF Delivers(c)
       THEN /\ outbox' = [outbox EXCEPT ![c] = Append(@, pose[c])]
            /\ pc' = [pc EXCEPT ![c] = AfterReply]
            /\ ForgetSession(c)
            /\ UNCHANGED <<link, fault, inbox, proc>>
       ELSE /\ EndHandler(c, Raised("ConnectionClosed", "send"))
            /\ UNCHANGED outbox
    /\ UNCHANGED <<calc, pipe, clients, backend, nsent, session, loop, fs, ioFaults, ndisc>>

Next ==
    \E c \in Conns :
        \/ ClientConnect(c)
        \/ \E f \in Frames : ClientSend(c, f)
        \/ ClientDisconnect(c)
        \/ RecvHeader(c)
        \/ RecvColor(c)
        \/ RecvDepth(c)
        \/ RecvClosed(c)
        \/ Stage(c)
        \/ Launch(c)
        \/ PipelineExit(c)
        \/ Estimate(c)
        \/ Send(c)

Spec == Init /\ [][Next]_<<vars, pipe, calc>>

\* One gateway serving one connection.
SpecOne == InitOne /\ [][Next]_<<vars, pipe, calc>>

\* ------------------------------------------------------- the pipelines
MaxExit == 2
MaxDuration == 2

Scripts == {"GigaPose", "FoundationPose"}

\* returncode of an external command
ExitCodes == 0..MaxExit
NotExited == -1

\* The stages main() times.
Stages == {"copy_input", "copy_templates", "instance_segmentation",
           "pose_estimation"}

\* Keys of the dict timings: "{stage}_start", "{stage}_end", "{stage}" and
\* "total".
Key(stage, suffix) == <<stage, suffix>>
Total == Key("total", "")
TimingKeys == (Stages \X {"", "_start", "_end"}) \cup {Total}
NoKey == -1
NoTimings == [k \in TimingKeys |-> NoKey]

\* A timings.json written by an earlier primary run.  FoundationPose's run
\* times copy_templates, GigaPose's does not.
PriorTimings(withTemplates) ==
    [k \in TimingKeys |->
        IF k = Key("copy_input", "") THEN 1
        ELSE IF k = Key("copy_templates", "") /\ withTemplates THEN 3
        ELSE IF k = Key("instance_segmentation", "") THEN 5
        ELSE IF k = Key("pose_estimation", "") THEN 2
        ELSE IF k = Total THEN 11
        ELSE NoKey]

\* Files of a run: the prior run's result directory (--primary_result_file),
\* the precomputed templates of the object type, the working dataset of
\* the run and the result directory the run writes.
PriorTimingsFile == "prior/Scores/timings.json"
PriorDetection == "prior/Pose/InstanceSegmentation.json"
PriorMask == "prior/Pose/MaskISM.png"
CacheTemplates == "cache/templates"
WorkTemplates == "work/templates"
WorkDetection == "work/sam6d_results/detection_ism.json"
WorkMask == "work/sam6d_results/mask_ism.png"
WorkDetections == "work/lmo_detections.json"
DefaultDetections == "work/default_detections/lmo_detections.json"
PoseMask == "work/FoundationPose/masks/000000.png"
ResultTimingsFile == "result/Scores/timings.json"

PriorPaths == {PriorTimingsFile, PriorDetection, PriorMask}
Paths == PriorPaths \cup
         {CacheTemplates, WorkTemplates, WorkDetection, WorkMask,
          WorkDetections, DefaultDetections, PoseMask, ResultTimingsFile}

\* A file: who produced its content, and the record it holds if it is a
\* timings.json.
File(by, json) == [has |-> TRUE, by |-> by, json |-> json]
NoFile == [has |-> FALSE, by |-> "none", json |-> NoTimings]

\* args.test_all_primary is the bool True unless the option is given
\* ("default"); given on the command line it is the str "False" or "True".
\* args.primary_result_file is None unless given.  args.novel is False
\* unless given.
ArgSets ==
    [test_all_primary : {"default", "False", "True"},
     primary_result_file : {"none", "given"},
     novel : BOOLEAN]

\* Mutant: the segmentation runs whatever --test_all_primary says.
IsPrimary_Always(a) == TRUE

\* args.test_all_primary == True
IsPrimary(a) == a.test_all_primary = "default"

\* args.test_all_primary == False or args.test_all_primary == "False"
IsReuse(a) == a.test_all_primary = "False"

\* One step of main().  op is what the statement does, x and y its operands
\* and stage the timed stage the statement belongs to ("" if none).
St(op, x, y, stage) == [op |-> op, x |-> x, y |-> y, stage |-> stage]

\* timings['{stage}{suffix}'] = time.time()
Stamp(stage, suffix) == St("stamp", Key(stage, suffix), "", "")
\* run([...]): subprocess.run, sys.exit(returncode) if it is not 0
Run(cmd, stage) == St("run", cmd, "", stage)
\* copy_if_exists / copy_file / copy_tree: skips, with a warning, if the
\* source is missing
Copy(src, dst, stage) == St("copy", src, dst, stage)
\* shutil.copy: raises FileNotFoundError if the source is missing
CopyStrict(src, dst, stage) == St("copy_strict", src, dst, stage)
\* Image.open(path): raises FileNotFoundError if the file is missing
Open(path) == St("open", path, "", "")
\* os.path.join(args.primary_result_file, ...): TypeError on None
Join == St("join", "", "", "")
Plain(op) == St(op, "", "", "")

ExportCapture == "export/000000/0"
WorkCapture == "work/capture"

\* What an external command leaves on disk when it does its work.
Outputs(cmd) ==
    IF cmd = "convert_to_bopm.py" THEN {WorkCapture}
    ELSE IF cmd \in {"batch_inference.py", "run_inference_custom.py"}
         THEN {WorkDetection, WorkMask}
    ELSE IF cmd = "combine_detection_ism.py" THEN {WorkDetections}
    ELSE {}

AllPaths == Paths \cup {ExportCapture, WorkCapture}

\* The segmentation stage when it is not run: the prior run's outputs are
\* copied to where the segmentation command would have left them.
CopySegmentation ==
    << Join,
       Copy(PriorDetection, WorkDetection, "instance_segmentation"),
       Copy(PriorMask, WorkMask, "instance_segmentation") >>

\* Mutant: timings.json is written before the result is rendered and
\* evaluated.
Persist_Early(evalCmd) ==
    << Plain("write"), Run("display_result.py", ""), Run(evalCmd, "") >>

\* The end of main(): render the result, evaluate it, copy the results
\* and write timings.json.
Persist(evalCmd) ==
    << Run("display_result.py", ""), Run(evalCmd, ""), Plain("write") >>

\* The timing bookkeeping once pose estimation is over.
Bookkeeping(a) ==
    << Plain("collapse"), Plain("total") >>
        \o (IF IsReuse(a) THEN << Plain("add_reused") >> ELSE << >>)

Cond(c, steps) == IF c THEN steps ELSE << >>

\* GigaPose/pipeline.py main().  --reuse_templates is True whether or not
\* it is given (default=True, action="store_true").
GigaPoseMain(a) ==
    Cond(IsReuse(a), << Join, Plain("load") >>)
    \o << Plain("global_start"),
          Stamp("copy_input", "_start"),
          Run("convert_to_bopm.py", "copy_input"),
          Open(WorkCapture),
          Copy(CacheTemplates, WorkTemplates, "copy_input"),
          Stamp("copy_input", "_end") >>
    \o (IF IsPrimary(a)
        THEN << Stamp("instance_segmentation", "_start"),
                Run("batch_inference.py", "instance_segmentation"),
                Stamp("instance_segmentation", "_end") >>
        ELSE CopySegmentation)
    \o << Stamp("pose_estimation", "_start"),
          Run("combine_detection_ism.py", "pose_estimation"),
          CopyStrict(WorkDetections, DefaultDetections, "pose_estimation"),
          Run("prepareDataset", "pose_estimation"),
          Run("test.py", "pose_estimation"),
          Stamp("pose_estimation", "_end") >>
    \o Bookkeeping(a)
    \o Persist("eval_bop")

\* FoundationPose/pipeline.py main().
FoundationPoseMain(a) ==
    << Plain("global_start") >>
    \o Cond(IsReuse(a), << Join, Plain("load") >>)
    \o << Stamp("copy_input", "_start"),
          Copy(ExportCapture, WorkCapture, "copy_input"),
          Open(WorkCapture),
          Stamp("copy_input", "_end") >>
    \o Cond(IsPrimary(a),
            << Stamp("copy_templates", "_start"),
               IF a.novel
               THEN Run("blenderproc", "copy_templates")
               ELSE Copy(CacheTemplates, WorkTemplates, "copy_templates"),
               Stamp("copy_templates", "_end") >>)
    \o (IF IsPrimary(a)
        THEN << Stamp("instance_segmentation", "_start"),
                Run("run_inference_custom.py", "instance_segmentation"),
                Stamp("instance_segmentation", "_start") >>
        ELSE CopySegmentation)
    \o << Copy(WorkMask, PoseMask, "instance_segmentation") >>
    \o Cond(IsPrimary(a), << Stamp("instance_segmentation", "_end") >>)
    \o << Stamp("pose_estimation", "_start"),
          Run("docker exec foundationpose", "pose_estimation"),
          Stamp("pose_estimation", "_end") >>
    \o Bookkeeping(a)
    \o Persist("conda run eval_bop")

Main(s, a) == IF s = "GigaPose" THEN GigaPoseMain(a) ELSE FoundationPoseMain(a)

\* The stages a run stamps.
Timed(s, a) ==
    { st \in Stages :
        \E i \in 1..Len(Main(s, a)) :
            Main(s, a)[i].op = "stamp" /\ Main(s, a)[i].x = Key(st, "_start") }

\* What the run finds on disk.  The prior run's directory holds a
\* timings.json (written by a GigaPose or a FoundationPose primary run) or
\* not, both segmentation outputs, only the detections, or neither; the
\* object's precomputed templates are in the cache or not; the result
\* directory holds an older timings.json or not.
InitialDisk(a, prior, seg, cached, old) ==
    [p \in AllPaths |->
        IF p = PriorTimingsFile
        THEN IF a.primary_result_file = "given" /\ prior # "absent"
             THEN File("prior", PriorTimings(prior = "FoundationPose"))
             ELSE NoFile
        ELSE IF p = PriorDetection
        THEN IF a.primary_result_file = "given" /\ seg \in {"both", "detection"}
             THEN File("prior", NoTimings) ELSE NoFile
        ELSE IF p = PriorMask
        THEN IF a.primary_result_file = "given" /\ seg = "both"
             THEN File("prior", NoTimings) ELSE NoFile
        ELSE IF p = CacheTemplates
        THEN IF cached THEN File("cache", NoTimings) ELSE NoFile
        ELSE IF p = ExportCapture THEN File("gateway", NoTimings)
        ELSE IF p = ResultTimingsFile
        THEN IF old THEN File("old", PriorTimings(FALSE)) ELSE NoFile
        ELSE NoFile]

\* A pipeline.py process has parsed its command line.
InitPipeline ==
    /\ NoGateway
    /\ NoCalc
    /\ script \in Scripts
    /\ args \in ArgSets
    /\ step = 1
    /\ running = "none"
    /\ invoked = << >>
    /\ exitStatus = NotExited
    /\ now = 0
    /\ global_start = NoKey
    /\ timings = NoTimings
    /\ \E prior \in {"absent", "GigaPose", "FoundationPose"},
          seg \in {"both", "detection", "none"}, cached, old \in BOOLEAN :
          disk = InitialDisk(args, prior, seg, cached, old)
    /\ writes = 0
    /\ began = [st \in Stages |-> NoKey]
    /\ ended = [st \in Stages |-> NoKey]

\* main() is at a statement of kind op.
At(op) ==
    /\ exitStatus = NotExited
    /\ running = "none"
    /\ step <= Len(Main(script, args))
    /\ Main(script, args)[step].op = op

Cur == Main(script, args)[step]

\* An exception main() does not catch: traceback, exit status 1.
Uncaught ==
    /\ exitStatus' = 1
    /\ UNCHANGED <<step, timings, disk, began, ended>>

\* The run is inside stage st at the current time.
Inside(st) ==
    /\ began' = IF st \in Stages /\ began[st] = NoKey
                THEN [began EXCEPT ![st] = now] ELSE began
    /\ ended' = IF st \in Stages THEN [ended EXCEPT ![st] = now] ELSE ended

JoinPrior ==
    /\ At("join")
    /\ IF args.primary_result_file = "none"
       THEN Uncaught
       ELSE /\ step' = step + 1
            /\ UNCHANGED <<exitStatus, timings, disk, began, ended>>
    /\ UNCHANGED <<calc, vars, script, args, running, invoked, now, global_start,
                   writes>>

\* if os.path.isfile(timings_file): timings = json.load(f)
LoadTimings ==
    /\ At("load")
    /\ timings' = IF disk[PriorTimingsFile].has
                  THEN disk[PriorTimingsFile].json ELSE timings
    /\ step' = step + 1
    /\ UNCHANGED <<calc, vars, script, args, running, invoked, exitStatus, now,
                   global_start, disk, writes, began, ended>>

GlobalStart ==
    /\ At("global_start")
    /\ global_start' = now
    /\ step' = step + 1
    /\ UNCHANGED <<calc, vars, script, args, running, invoked, exitStatus, now,
                   timings, disk, writes, began, ended>>

StampTime ==
    /\ At("stamp")
    /\ timings' = [timings EXCEPT ![Cur.x] = now]
    /\ step' = step + 1
    /\ UNCHANGED <<calc, vars, script, args, running, invoked, exitStatus, now,
                   global_start, disk, writes, began, ended>>

\* Mutant: run() returns whatever the command's return code was.
ExitsOnFailure_Never(code) == FALSE

\* run(): if result.returncode != 0: sys.exit(result.returncode)
ExitsOnFailure(code) == code # 0

\* subprocess.run(cmd) starts the command and waits for it.
Invoke ==
    /\ At("run")
    /\ running' = Cur.x
    /\ invoked' = Append(invoked, [cmd |-> Cur.x, code |-> NotExited])
    /\ began' = IF Cur.stage \in Stages /\ began[Cur.stage] = NoKey
                THEN [began EXCEPT ![Cur.stage] = now] ELSE began
    /\ UNCHANGED <<calc, vars, script, args, step, exitStatus, now, global_start,
                   timings, disk, writes, ended>>

\* The command exits with return code `code` after `dur` seconds; `made`
\* says whether it left its outputs.
CommandExit(code, dur, made) ==
    /\ running # "none"
    /\ made \/ (code = 0 /\ Outputs(running) # {})
    /\ now' = now + dur
    /\ running' = "none"
    /\ invoked' = [invoked EXCEPT ![Len(invoked)].code = code]
    /\ IF ExitsOnFailure(code)
       THEN /\ exitStatus' = code % 256
            /\ UNCHANGED <<step, disk, ended>>
       ELSE /\ step' = step + 1
            /\ disk' = [p \in AllPaths |->
                          IF made /\ code = 0 /\ p \in Outputs(running)
                          THEN File(running, NoTimings) ELSE disk[p]]
            /\ ended' = IF Cur.stage \in Stages
                        THEN [ended EXCEPT ![Cur.stage] = now'] ELSE ended
            /\ UNCHANGED exitStatus
    /\ UNCHANGED <<calc, vars, script, args, global_start, timings, writes, began>>

\* copy_if_exists, copy_file, copy_tree (skip a missing source) and
\* shutil.copy (raises on a missing source).
CopyFile ==
    /\ At("copy") \/ At("copy_strict")
    /\ IF disk[Cur.x].has
       THEN /\ disk' = [disk EXCEPT ![Cur.y] = disk[Cur.x]]
            /\ step' = step + 1
            /\ Inside(Cur.stage)
            /\ UNCHANGED <<exitStatus, timings>>
       ELSE IF Cur.op = "copy_strict"
       THEN Uncaught
       ELSE /\ step' = step + 1
            /\ Inside(Cur.stage)
            /\ UNCHANGED <<exitStatus, timings, disk>>
    /\ UNCHANGED <<calc, vars, script, args, running, invoked, now, global_start,
                   writes>>

\* img = Image.open(rgb_image).convert("RGB"); img.save(rgb_image)
OpenImage ==
    /\ At("open")
    /\ IF disk[Cur.x].has
       THEN /\ step' = step + 1
            /\ UNCHANGED <<exitStatus, timings, disk, began, ended>>
       ELSE Uncaught
    /\ UNCHANGED <<calc, vars, script, args, running, invoked, now, global_start,
                   writes>>

\* for key in list(timings.keys()): if key.endswith('_start'): ...
\* timings[step] = timings[step_end] - timings[step_start]; del both.
Collapsed(t) ==
    [k \in TimingKeys |->
        IF k = Total THEN t[k]
        ELSE IF t[Key(k[1], "_start")] = NoKey THEN t[k]
        ELSE IF k[2] = "" THEN t[Key(k[1], "_end")] - t[Key(k[1], "_start")]
        ELSE NoKey]

Collapse ==
    /\ At("collapse")
    /\ IF \E st \in Stages : /\ timings[Key(st, "_start")] # NoKey
                             /\ timings[Key(st, "_end")] = NoKey
       THEN Uncaught
       ELSE /\ timings' = Collapsed(timings)
            /\ step' = step + 1
            /\ UNCHANGED <<exitStatus, disk, began, ended>>
    /\ UNCHANGED <<calc, vars, script, args, running, invoked, now, global_start,
                   writes>>

\* timings['total'] = time.time() - global_start
ComputeTotal ==
    /\ At("total")
    /\ timings' = [timings EXCEPT ![Total] = now - global_start]
    /\ step' = step + 1
    /\ UNCHANGED <<calc, vars, script, args, running, invoked, exitStatus, now,
                   global_start, disk, writes, began, ended>>

\* Mutant: the stages that were not rerun add nothing.
Reused_Nothing(t) == 0

\* timings['instance_segmentation'] + timings['copy_templates']
Reused(t) ==
    t[Key("instance_segmentation", "")] + t[Key("copy_templates", "")]

\* total = total + instance_segmentation; total = total + copy_templates:
\* KeyError if the loaded record lacks one of them.
AddReused ==
    /\ At("add_reused")
    /\ IF \/ timings[Key("instance_segmentation", "")] = NoKey
          \/ timings[Key("copy_templates", "")] = NoKey
       THEN Uncaught
       ELSE /\ timings' = [timings EXCEPT ![Total] = @ + Reused(timings)]
            /\ step' = step + 1
            /\ UNCHANGED <<exitStatus, disk, began, ended>>
    /\ UNCHANGED <<calc, vars, script, args, running, invoked, now, global_start,
                   writes>>

\* with open(.../Scores/timings.json, 'w') as f: json.dump(timings, f)
WriteTimings ==
    /\ At("write")
    /\ disk' = [disk EXCEPT ![ResultTimingsFile] = File("run", timings)]
    /\ writes' = writes + 1
    /\ step' = step + 1
    /\ UNCHANGED <<calc, vars, script, args, running, invoked, exitStatus, now,
                   global_start, timings, began, ended>>

\* main() returns: exit status 0.
Finish ==
    /\ exitStatus = NotExited
    /\ running = "none"
    /\ step > Len(Main(script, args))
    /\ exitStatus' = 0
    /\ UNCHANGED <<calc, vars, script, args, step, running, invoked, now,
                   global_start, timings, disk, writes, began, ended>>

NextPipeline ==
    \/ JoinPrior
    \/ LoadTimings
    \/ GlobalStart
    \/ StampTime
    \/ Invoke
    \/ \E code \in ExitCodes, dur \in 1..MaxDuration, made \in BOOLEAN :
          CommandExit(code, dur, made)
    \/ CopyFile
    \/ OpenImage
    \/ Collapse
    \/ ComputeTotal
    \/ AddReused
    \/ WriteTimings
    \/ Finish

SpecPipeline == InitPipeline /\ [][NextPipeline]_<<vars, pipe, calc>>

\* ------------------------------------------------------------ properties
WellFormed(p) == Len(p.position) = 3 /\ Len(p.rotation) \in {4, 9}

SessionFrames ==
    << Event("header", "text"), Event("color", "bytes"), Event("depth", "bytes") >>

FrameKinds == << "header", "color", "depth" >>

\* The frames read since the last reply are a header, then a color frame,
\* then a depth frame, and no more.
InOrder(t) ==
    /\ Len(t) <= 3
    /\ \A i \in 1..Len(t) : t[i][1] = FrameKinds[i]

\* C1: in every session the handler sends at most one outbound frame, only
\* after it has read the header (text), the color frame and the depth frame
\* (bytes) in that order, and it reads no further frame (the next session's
\* header) before that reply is sent.
C1_OneReplyAfterThreeFrames ==
    [][\A c \in Conns :
          /\ InOrder(trace'[c])
          /\ Len(outbox'[c]) <= session'[c]
          /\ outbox'[c] # outbox[c] =>
                /\ trace[c] = SessionFrames
                /\ trace'[c] = << >>
                /\ Len(outbox'[c]) = Len(outbox[c]) + 1
                /\ Len(outbox'[c]) = session[c]]_vars

\* The next session's header has arrived while the reply of the session in
\* progress is still to be sent.
C1_Witness ==
    \E c \in Conns :
        /\ pc[c] = "send"
        /\ trace[c] = SessionFrames
        /\ inbox[c] # << >>
        /\ Head(inbox[c]).json

\* C2: when the pipeline process of a session exits non-zero, estimate_pose
\* returns the well-formed fallback pose, the handler sends it on the open
\* connection and goes back to waiting for the next header.
C2_FallbackOnPipelineFailure ==
    [][\A c \in Conns :
          /\ (pc[c] = "pipeline" /\ proc[c] = "failed" /\ pc'[c] # pc[c]) =>
                /\ pc'[c] = "send"
                /\ pose'[c] = FallbackPose
                /\ WellFormed(pose'[c])
                /\ link'[c] = link[c]
          /\ (pc[c] = "send" /\ proc[c] = "failed" /\ link[c] = "open"
                /\ pc'[c] # pc[c]) =>
                /\ outbox'[c] = Append(outbox[c], FallbackPose)
                /\ pc'[c] = "await_header"
                /\ link'[c] = "open"]_vars

\* The fallback reply of a failed pipeline run has been delivered and the
\* handler waits for the next header on the open connection.
C2_Witness ==
    \E c \in Conns :
        /\ proc[c] = "failed"
        /\ pc[c] = "await_header"
        /\ link[c] = "open"
        /\ outbox[c] = << FallbackPose >>

\* Connection c is dropped without a reply and nothing else changes for the
\* other connections; the event-loop thread is free for them.
Dropped(c) ==
    /\ pc'[c] = "done"
    /\ link'[c] = "closed"
    /\ outbox'[c] = outbox[c]
    /\ loop' = 0
    /\ \A d \in Conns \ {c} :
          /\ pc'[d] = pc[d]
          /\ link'[d] = link[d]
          /\ inbox'[d] = inbox[d]
          /\ outbox'[d] = outbox[d]

WrongImage(c) == rgb[c] = "text" \/ depth[c] = "text"

\* C3: a bytes frame read as the header, or a text frame read as the color
\* or depth image, ends the session without a reply: the connection is
\* dropped and the other connections are left as they were.
C3_WrongTypeDropsConnection ==
    [][\A c \in Conns :
          /\ (pc[c] = "await_header" /\ inbox[c] # << >> /\ pc'[c] # pc[c]
                /\ IsBytes(Head(inbox[c]))) => Dropped(c)
          /\ WrongImage(c)' => pc'[c] \in {"await_depth", "staging"}
          /\ (WrongImage(c) /\ pc[c] = "staging" /\ pc'[c] # pc[c]) => Dropped(c)
          /\ (WrongImage(c) /\ pc[c] = "await_depth" /\ pc'[c] # pc[c]) =>
                pc'[c] = "staging" \/ Dropped(c)]_vars

\* A connection was dropped for a text image frame while another
\* connection's session has its reply ready.
C3_Witness ==
    \E c, d \in Conns :
        /\ c # d
        /\ fault[c] = Raised("TypeError", "stage")
        /\ link[c] = "closed"
        /\ outbox[c] = << >>
        /\ pc[d] = "send"

\* C4: a session whose header has camK and omits objectType and/or sceneName
\* is accepted: after staging, its pipeline is started.
C4_OptionalFieldsAccepted ==
    [][\A c \in Conns :
          (pc[c] = "launch" /\ hdr[c].camK = 9 /\ pc'[c] # pc[c]
             /\ (~hdr[c].objectType \/ ~hdr[c].sceneName)) =>
                /\ pc'[c] = "pipeline"
                /\ link'[c] = link[c]]_vars

\* C5: every reply one gateway sends has a rotation of the same length.
C5_RotationShapeFixed ==
    \A c, d \in Conns :
        \A i \in 1..Len(outbox[c]), j \in 1..Len(outbox[d]) :
            Len(outbox[c][i].rotation) = Len(outbox[d][j].rotation)

IsIdentityPose(p) ==
    /\ p.position = ZeroVec
    /\ p.rotation \in {IdentityQuat, IdentityMat}

\* C6: when the artifact is missing or empty after the pipeline exited 0,
\* the reply is position [0,0,0] with an identity orientation.
C6_MissingOrEmptyGivesIdentity ==
    [][\A c \in Conns :
          (pc[c] = "pipeline" /\ proc[c] = "exit0" /\ pc'[c] # pc[c]
             /\ artifact[c].kind \in {"missing", "empty"}) =>
                /\ pc'[c] = "send"
                /\ IsIdentityPose(pose'[c])]_vars

\* The artifact exists but has no pose to read: a CSV row without numeric R
\* and t, an archive without poses or scores, a record without TWO or with a
\* pose of the wrong length.
Unparseable(a) ==
    \/ /\ a.kind = "csv"
       /\ ~(a.R.has /\ a.R.num /\ a.t.has /\ a.t.num)
    \/ /\ a.kind = "npz"
       /\ ~(a.hasPoses /\ a.hasScores)
    \/ /\ a.kind = "json"
       /\ FindEntry(a.entries) # 0
       /\ LET e == a.entries[FindEntry(a.entries)]
          IN  ~e.hasTWO \/ Len(e.quat) # 4 \/ Len(e.trans) # 3

\* C7: an artifact that cannot be parsed still yields the fallback reply.
C7_UnparseableGivesFallback ==
    [][\A c \in Conns :
          (pc[c] = "pipeline" /\ proc[c] = "exit0" /\ pc'[c] # pc[c]
             /\ Unparseable(artifact[c])) =>
                /\ pc'[c] = "send"
                /\ pose'[c] = FallbackPose]_vars

\* C8: a failure while staging (an I/O error, or camK that cannot be shaped
\* 3x3) never ends as a dropped connection.
C8_StagingFailureReplied ==
    \A c \in Conns :
        fault[c] \in {Raised("OSError", "stage"), Raised("ValueError", "reshape")}
            => link[c] # "closed"

\* C9: while one connection's pipeline process runs, another connection that
\* has a frame waiting can read it.
C9_OtherConnectionsProgress ==
    \A c, d \in Conns :
        (c # d /\ pc[c] = "pipeline" /\ proc[c] = "running"
           /\ pc[d] \in {"await_header", "await_color", "await_depth"}
           /\ inbox[d] # << >>) =>
              ENABLED (RecvHeader(d) \/ RecvColor(d) \/ RecvDepth(d))

\* A session is between the start of staging and the end of normalization.
InFlight(c) == pc[c] \in {"staging", "launch", "pipeline"}

SegmentationCommands == {"batch_inference.py", "run_inference_custom.py"}
EvaluationCommands == {"eval_bop", "conda run eval_bop"}

Invoked(cmds) == \E i \in 1..Len(invoked) : invoked[i].cmd \in cmds

\* The run has left the segmentation stage behind.
PastSegmentation == began["pose_estimation"] # NoKey

\* The prior run's directory is supplied and holds both segmentation
\* outputs.
PriorSegmentation ==
    /\ args.primary_result_file = "given"
    /\ disk[PriorDetection].has
    /\ disk[PriorMask].has

\* C11: a command is invoked only after every earlier command has exited
\* with status 0; once a command exits non-zero it is the last one invoked
\* and the pipeline process has exited with that status.
C11_StagesInOrder ==
    /\ \A i \in 1..(Len(invoked) - 1) : invoked[i].code = 0
    /\ \A i \in 1..Len(invoked) :
          invoked[i].code \notin {0, NotExited} =>
             /\ i = Len(invoked)
             /\ running = "none"
             /\ exitStatus = invoked[i].code

\* The third command of a run exited with status 2 and so did the run.
C11_Witness ==
    /\ Len(invoked) = 3
    /\ invoked[3].code = 2
    /\ exitStatus = 2

\* C12: in reuse mode with the prior run's segmentation outputs in place,
\* the segmentation command is never invoked, and once the run is past the
\* segmentation stage detection_ism.json and mask_ism.png hold the prior
\* run's outputs.
C12_ReuseSkipsSegmentation ==
    (IsReuse(args) /\ PriorSegmentation) =>
        /\ ~Invoked(SegmentationCommands)
        /\ PastSegmentation =>
              /\ disk[WorkDetection] = disk[PriorDetection]
              /\ disk[WorkMask] = disk[PriorMask]

\* A reuse run has finished with the prior run's mask in place.
C12_Witness ==
    /\ IsReuse(args)
    /\ PriorSegmentation
    /\ exitStatus = 0
    /\ disk[WorkMask].by = "prior"
    /\ disk[WorkDetection].by = "prior"

\* C13: past the segmentation stage, the segmentation command was skipped
\* exactly when reuse is set and the prior run's directory is supplied and
\* holds the segmentation outputs; otherwise it was invoked.
C13_CopyOnlyWhenOutputPresent ==
    PastSegmentation =>
        (~Invoked(SegmentationCommands) <=> (IsReuse(args) /\ PriorSegmentation))

\* C14: a copy step that finds its source missing ends the run: main() does
\* not go on to the next statement.
C14_MissingSourceFailsRun ==
    [][(/\ At("copy") \/ At("copy_strict")
        /\ ~disk[Cur.x].has) => step' = step]_<<vars, pipe>>

C16_ReuseTotal ==
    (writes > 0 /\ IsReuse(args)) =>
        disk[ResultTimingsFile].json[Total] =
            (ended["pose_estimation"] - global_start)
            + disk[PriorTimingsFile].json[Key("instance_segmentation", "")]
            + disk[PriorTimingsFile].json[Key("copy_templates", "")]

\* A reuse run has written its record.
C16_Witness ==
    /\ writes > 0
    /\ IsReuse(args)
    /\ disk[PriorTimingsFile].has
    /\ disk[ResultTimingsFile].json[Total] > 8

\* C17: timings.json is written at most once, only after every command up
\* to and including the evaluation has exited 0, and a run that has ended
\* with a non-zero status has not written it: the file is absent or the
\* older record; a run that ends with status 0 has written it once.
C17_TimingsWrittenOnceOnSuccess ==
    /\ writes <= 1
    /\ writes = 1 =>
          /\ Invoked(EvaluationCommands)
          /\ \A i \in 1..Len(invoked) : invoked[i].code = 0
    /\ writes = 0 =>
          disk[ResultTimingsFile] \in {NoFile, File("old", PriorTimings(FALSE))}
    /\ exitStatus \notin {0, NotExited} => writes = 0
    /\ exitStatus = 0 => writes = 1

\* A run failed in its evaluation command and the older record is in place.
C17_Witness ==
    /\ Invoked(EvaluationCommands)
    /\ invoked[Len(invoked)].code = 1
    /\ exitStatus = 1
    /\ disk[ResultTimingsFile] = File("old", PriorTimings(FALSE))

\* ------------------------------------------------- staging properties
ColorFiles == {"SAM6D/rgb.png", "FoundationPose/rgb/000000.png",
               "MegaPose/inputs/image_rgb.png", "MegaPose/image_rgb.png"}
DepthFiles == {"SAM6D/depth.png", "FoundationPose/depth/000000.png",
               "MegaPose/inputs/image_depth.png", "MegaPose/image_depth.png"}

\* Connection c's handler has just finished staging its session.
Staged(c) == pc[c] = "staging" /\ pc'[c] = "launch"

\* After the step the staged files hold session c's color and depth bytes
\* and the nine intrinsics K: flattened in camera.json, as three lines of
\* three values in cam_K.txt and as three rows in camera_data.json.
StagedAs(c, K) ==
    /\ \A f \in ColorFiles :
          fs'[f] = Written(SessionTag(c), Content("color", << >>))
    /\ \A f \in DepthFiles :
          fs'[f] = Written(SessionTag(c), Content("depth", << >>))
    /\ fs'["SAM6D/camera.json"] = Written(SessionTag(c), Content("cam_K", K))
    /\ fs'["FoundationPose/cam_K.txt"] =
          Written(SessionTag(c),
                  Content("lines", << <<K[1], K[2], K[3]>>, <<K[4], K[5], K[6]>>,
                                      <<K[7], K[8], K[9]>> >>))
    /\ fs'["MegaPose/camera_data.json"] =
          Written(SessionTag(c),
                  Content("K", << <<K[1], K[2], K[3]>>, <<K[4], K[5], K[6]>>,
                                  <<K[7], K[8], K[9]>> >>))

\* C18 as stated: when a session's staging completes, the staged color and
\* depth files hold that session's frames and the staged intrinsics hold
\* the header's camK values, row-major.
C18_StagedVerbatim ==
    [][\A c \in Conns : Staged(c) => StagedAs(c, hdr[c].K)]_<<vars, pipe>>

\* C18: when a session's staging completes, the staged color and depth
\* files hold that session's frames and the staged intrinsics hold the
\* header's camK values narrowed to binary32, row-major.
C18_StagedNarrowed ==
    [][\A c \in Conns :
          Staged(c) =>
              StagedAs(c, [i \in 1..9 |-> Float32(hdr[c].K[i])])]_<<vars, pipe>>

\* A session whose intrinsics need more than binary32 precision is staged.
C18_Witness ==
    \E c \in Conns :
        /\ pc[c] = "launch"
        /\ hdr[c].K = PreciseK
        /\ fs["SAM6D/camera.json"].by = SessionTag(c)
        /\ fs["SAM6D/camera.json"].data.K[5] = 16777220
        /\ fs["FoundationPose/cam_K.txt"].data.K[1][3] = 320

\* C19: when a session's staging completes, every file under the staged
\* capture root was written by that session.
C19_NoStaleFiles ==
    [][\A c \in Conns :
          Staged(c) =>
              \A f \in Files :
                  fs'[f].state = "absent" \/ fs'[f].by = SessionTag(c)]_<<vars, pipe>>

\* The lowest index holding the maximal score.
FirstBest(scores) ==
    CHOOSE i \in 1..Len(scores) :
        /\ \A j \in 1..Len(scores) : scores[j] <= scores[i]
        /\ \A j \in 1..Len(scores) : scores[j] = scores[i] => i <= j

\* C20: from an artifact with poses and scores the GigaPose gateway returns
\* the translation and rotation of the hypothesis with the maximal score,
\* the one with the lowest index if several have it.
C20_BestHypothesis ==
    [][\A c \in Conns :
          (/\ backend = "GigaPose"
           /\ pc[c] = "pipeline" /\ pc'[c] # pc[c]
           /\ proc[c] = "exit0"
           /\ artifact[c].kind = "npz"
           /\ artifact[c].hasPoses /\ artifact[c].hasScores
           /\ Len(artifact[c].scores) > 0) =>
              LET best == artifact[c].poses[FirstBest(artifact[c].scores)]
              IN  /\ pc'[c] = "send"
                  /\ pose'[c] = Pose(best.t, best.R)]_<<vars, pipe>>

\* The reply for an artifact whose two last hypotheses share the maximal
\* score is ready: it is the second hypothesis.
C20_Witness ==
    \E c \in Conns :
        /\ backend = "GigaPose"
        /\ pc[c] = "send"
        /\ artifact[c].kind = "npz"
        /\ artifact[c].scores = <<2, 9, 9>>
        /\ pose[c] = Pose(<<1, 2, 3>>, RotZ90)

\* ------------------------------------------------- structured artifacts
\* The object a session requests: the header's objectType, "crankcase" in
\* client_test.py, or nothing.
Requested(h) == IF h.objectType THEN "crankcase" ELSE "none"

\* The records of a structured artifact that carry the label.
Matching(entries, label) ==
    {i \in 1..Len(entries) : entries[i].label = label}

\* C21: the MegaPose reply for a structured artifact is derived from the
\* record whose label is the object the session requested, and is the
\* fallback pose when no record has that label.
C21_ReplyFromRequestedRecord ==
    \A c \in Conns :
        (/\ backend = "MegaPose"
         /\ pc[c] = "send"
         /\ proc[c] = "exit0"
         /\ artifact[c].kind = "json") =>
            LET found == Matching(artifact[c].entries, Requested(hdr[c]))
            IN  IF found = {}
                THEN pose[c] = FallbackPose
                ELSE \E i \in found :
                        /\ artifact[c].entries[i].hasTWO
                        /\ pose[c].position =
                               Scale(artifact[c].entries[i].trans, 1000)

\* ------------------------------------------------------------ disconnects
\* The client of connection c has closed its end while the session's
\* pipeline process was still to be awaited.
Orphaned(c) == link[c] = "client_closed" /\ pc[c] \in {"pipeline", "send"}

\* C22: after the client disconnects during processing the pipeline process
\* is not cancelled (it leaves the running state only by exiting), nothing
\* is delivered on that connection, the handler ends when it tries to reply
\* and the thread is free for the other connections, which are untouched.
C22_DisconnectWhileProcessing ==
    [][\A c \in Conns :
          /\ (pc[c] = "pipeline" /\ proc[c] = "running") =>
                /\ pc'[c] = "pipeline"
                /\ proc'[c] \in {"running", "failed", "exit0"}
          /\ Orphaned(c) => outbox'[c] = outbox[c]
          /\ (Orphaned(c) /\ pc'[c] # pc[c]) =>
                \/ pc[c] = "pipeline" /\ pc'[c] = "send" /\ loop' = 0
                \/ Dropped(c)]_<<vars, pipe>>

\* The client left while its pipeline was running; the process exited 0,
\* the reply raised ConnectionClosed, nothing was delivered, and the other
\* client has connected since.
C22_Witness ==
    \E c, d \in Conns :
        /\ c # d
        /\ pc[c] = "done"
        /\ fault[c] = Raised("ConnectionClosed", "send")
        /\ session[c] = 1
        /\ outbox[c] = << >>
        /\ link[d] = "open"
        /\ pc[d] = "await_header"
        /\ session[d] = 0

\* -------------------------------------------------------- zero quaternion
\* The record the MegaPose gateway reads carries the all-zero quaternion.
ZeroQuaternion(a) ==
    /\ a.kind = "json"
    /\ FindEntry(a.entries) # 0
    /\ a.entries[FindEntry(a.entries)].hasTWO
    /\ a.entries[FindEntry(a.entries)].quat = <<0, 0, 0, 0>>

\* C24: a MegaPose session whose record carries the all-zero quaternion
\* gets the identity rotation from quat_to_rotm and its reply is made ready.
C24_ZeroQuaternionIsIdentity ==
    [][\A c \in Conns :
          (/\ backend = "MegaPose"
           /\ pc[c] = "pipeline" /\ pc'[c] # pc[c]
           /\ proc[c] = "exit0"
           /\ ZeroQuaternion(artifact[c])) =>
              /\ pc'[c] = "send"
              /\ pose'[c].rotation = IdentityMat]_<<vars, pipe>>

\* ------------------------------------------------- violations and staging
\* C29: the step that ends a session in a protocol violation (a bytes frame
\* read as the header, or staging reached with a text frame as the color or
\* the depth image) leaves every staged file as it was.
C29_ViolationLeavesFiles ==
    [][\A c \in Conns :
          /\ (pc[c] = "await_header" /\ inbox[c] # << >> /\ pc'[c] = "done"
                /\ IsBytes(Head(inbox[c]))) => fs' = fs
          /\ (WrongImage(c) /\ pc[c] = "staging" /\ pc'[c] = "done") =>
                fs' = fs]_<<vars, pipe>>

\* --------------------------------------------------- stamps and commands
\* C28: a stage's command is invoked only after the stage's _start stamp
\* and before its _end stamp, and when the _end stamp is taken the recorded
\* _start is no later than the stage's first command was invoked and the
\* _end no earlier than its last command exited.
C28_StampsBracketCommands ==
    [][\A st \in Stages :
          /\ (At("run") /\ Cur.stage = st /\ running' # "none") =>
                /\ timings[Key(st, "_start")] # NoKey
                /\ timings[Key(st, "_start")] <= now
                /\ timings[Key(st, "_end")] = NoKey
          /\ (At("stamp") /\ Cur.x = Key(st, "_end") /\ step' = step + 1
                /\ began[st] # NoKey) =>
                /\ timings'[Key(st, "_start")] <= began[st]
                /\ ended[st] <= timings'[Key(st, "_end")]]_<<vars, pipe>>

\* ------------------------------------------------ reuse without a record
\* The record a reuse run has loaded lacks a duration the run adds.
LacksReused(t) ==
    \/ t[Key("instance_segmentation", "")] = NoKey
    \/ t[Key("copy_templates", "")] = NoKey

\* C30: a reuse run whose prior result directory has no timings.json, or
\* one without instance_segmentation or copy_templates, goes on from adding
\* the reused durations to writing its own record.
C30_ReuseWithoutRecord ==
    [][(/\ At("add_reused")
        /\ IsReuse(args)
        /\ \/ ~disk[PriorTimingsFile].has
           \/ LacksReused(disk[PriorTimingsFile].json)) =>
            /\ step' = step + 1
            /\ exitStatus' = NotExited]_<<vars, pipe>>

\* --------------------------------------------------------------- pose math
\* The pose-math functions compute in binary64 and binary32; the model
\* computes with the real numbers those values approximate.  A number is
\* (n/d) * sqrt(r) with d > 0, r >= 1 square-free and n/d in lowest terms;
\* NaN is what np.sqrt of a negative number and a division by zero yield.
Num(n, d, r) == [n |-> n, d |-> d, r |-> r]
Zero == Num(0, 1, 1)
NaN == Num(0, 0, 0)

RECURSIVE Gcd(_, _)
Gcd(a, b) == IF b = 0 THEN a ELSE Gcd(b, a % b)

Abs(a) == IF a < 0 THEN -a ELSE a

\* The largest k whose square divides r.
SquarePart(r) ==
    CHOOSE k \in 1..r :
        /\ r % (k * k) = 0
        /\ \A j \in (k + 1)..r : r % (j * j) # 0

\* (n/d) * sqrt(r) in the form above.
Norm(n, d, r) ==
    IF d = 0 \/ r <= 0 THEN NaN
    ELSE IF n = 0 THEN Zero
    ELSE LET k == SquarePart(r)
             s == IF d < 0 THEN -1 ELSE 1
             g == Gcd(Abs(n * k), Abs(d))
         IN  Num((s * n * k) \div g, (s * d) \div g, r \div (k * k))

Whole(i) == Num(i, 1, 1)
Ratio(n, d) == Norm(n, d, 1)

Neg(a) == Num(-a.n, a.d, a.r)

\* A sum of two numbers with the same radicand (the functions add no
\* others).
Add(a, b) ==
    IF a = NaN \/ b = NaN THEN NaN
    ELSE IF a.n = 0 THEN b
    ELSE IF b.n = 0 THEN a
    ELSE IF a.r = b.r THEN Norm(a.n * b.d + b.n * a.d, a.d * b.d, a.r)
    ELSE NaN

Sub(a, b) == Add(a, Neg(b))

Mul(a, b) == Norm(a.n * b.n, a.d * b.d, a.r * b.r)

\* numpy division: no exception, a zero divisor gives inf or nan.
Div(a, b) ==
    IF b = NaN \/ b.n = 0 THEN NaN
    ELSE Norm(a.n * b.d, a.d * b.n * b.r, a.r * b.r)

\* a > b
Gt(a, b) == Sub(a, b).n > 0

\* np.sqrt / math.sqrt of a rational number.
SquareRoot(a) ==
    IF a = NaN \/ a.r # 1 \/ a.n < 0 THEN NaN
    ELSE Norm(1, a.d, a.n * a.d)

\* What a call returned: a value, or the exception it raised.
Pending == [exc |-> "pending", value |-> << >>, via |-> ""]
Value(v, via) == [exc |-> "none", value |-> v, via |-> via]
Failure(e) == [exc |-> e, value |-> << >>, via |-> ""]

\* M[i,j] of the row-major 3x3 matrix R, as float64.
Elem(R, i, j) == Whole(R[3 * i + j + 1])

\* trace = M[0,0] + M[1,1] + M[2,2]
Trace(R) == Add(Add(Elem(R, 0, 0), Elem(R, 1, 1)), Elem(R, 2, 2))

\* Mutant: below the trace test the first diagonal entry is always taken.
Branch_First(R) == IF Gt(Trace(R), Zero) THEN "trace" ELSE "M00"

\* The branch of rotation_matrix_to_quaternion: if trace > 0, else
\* if M[0,0] > M[1,1] and M[0,0] > M[2,2], elif M[1,1] > M[2,2], else.
Branch(R) ==
    IF Gt(Trace(R), Zero) THEN "trace"
    ELSE IF Gt(Elem(R, 0, 0), Elem(R, 1, 1)) /\ Gt(Elem(R, 0, 0), Elem(R, 2, 2))
         THEN "M00"
    ELSE IF Gt(Elem(R, 1, 1), Elem(R, 2, 2)) THEN "M11"
    ELSE "M22"

\* s = 2.0 * np.sqrt(1.0 + a - b - c)
Shepperd(a, b, c) ==
    Mul(Whole(2), SquareRoot(Sub(Sub(Add(Whole(1), a), b), c)))

\* rotation_matrix_to_quaternion(R): np.array([x, y, z, w]).
rotation_matrix_to_quaternion(R) ==
    LET M(i, j) == Elem(R, i, j)
        via == Branch(R)
    IN  IF via = "trace" THEN
            LET s == Div(Ratio(1, 2), SquareRoot(Add(Trace(R), Whole(1))))
            IN  Value(<< Mul(Sub(M(2, 1), M(1, 2)), s),
                         Mul(Sub(M(0, 2), M(2, 0)), s),
                         Mul(Sub(M(1, 0), M(0, 1)), s),
                         Div(Ratio(1, 4), s) >>, via)
        ELSE IF via = "M00" THEN
            LET s == Shepperd(M(0, 0), M(1, 1), M(2, 2))
            IN  Value(<< Mul(Ratio(1, 4), s),
                         Div(Add(M(0, 1), M(1, 0)), s),
                         Div(Add(M(0, 2), M(2, 0)), s),
                         Div(Sub(M(2, 1), M(1, 2)), s) >>, via)
        ELSE IF via = "M11" THEN
            LET s == Shepperd(M(1, 1), M(0, 0), M(2, 2))
            IN  Value(<< Div(Add(M(0, 1), M(1, 0)), s),
                         Mul(Ratio(1, 4), s),
                         Div(Add(M(1, 2), M(2, 1)), s),
                         Div(Sub(M(0, 2), M(2, 0)), s) >>, via)
        ELSE
            LET s == Shepperd(M(2, 2), M(0, 0), M(1, 1))
            IN  Value(<< Div(Add(M(0, 2), M(2, 0)), s),
                         Div(Add(M(1, 2), M(2, 1)), s),
                         Mul(Ratio(1, 4), s),
                         Div(Sub(M(1, 0), M(0, 1)), s) >>, via)

\* Mutant: the quaternion is read as [w, x, y, z].
quat_to_rotm_wxyz(q) ==
    LET n == SquareRoot(Add(Add(Add(Mul(q[1], q[1]), Mul(q[2], q[2])),
                                Mul(q[3], q[3])), Mul(q[4], q[4])))
        w == Div(q[1], n)
        x == Div(q[2], n)
        y == Div(q[3], n)
        z == Div(q[4], n)
        One(a) == Sub(Whole(1), Mul(Whole(2), a))
        Two(a) == Mul(Whole(2), a)
    IN  << One(Add(Mul(y, y), Mul(z, z))),
           Two(Sub(Mul(x, y), Mul(w, z))),
           Two(Add(Mul(x, z), Mul(w, y))),
           Two(Add(Mul(x, y), Mul(w, z))),
           One(Add(Mul(x, x), Mul(z, z))),
           Two(Sub(Mul(y, z), Mul(w, x))),
           Two(Sub(Mul(x, z), Mul(w, y))),
           Two(Add(Mul(y, z), Mul(w, x))),
           One(Add(Mul(x, x), Mul(y, y))) >>

\* quat_to_rotm(q) on the array rotation_matrix_to_quaternion returns:
\* x,y,z,w = q; n = math.sqrt(x*x + y*y + z*z + w*w); x/n, y/n, z/n, w/n;
\* then the nine bilinear terms, row-major.  (On Python numbers the
\* division by n = 0 raises instead: see NormalizeJson.)
quat_to_rotm(q) ==
    LET n == SquareRoot(Add(Add(Add(Mul(q[1], q[1]), Mul(q[2], q[2])),
                                Mul(q[3], q[3])), Mul(q[4], q[4])))
        x == Div(q[1], n)
        y == Div(q[2], n)
        z == Div(q[3], n)
        w == Div(q[4], n)
        One(a) == Sub(Whole(1), Mul(Whole(2), a))
        Two(a) == Mul(Whole(2), a)
    IN  << One(Add(Mul(y, y), Mul(z, z))),
           Two(Sub(Mul(x, y), Mul(w, z))),
           Two(Add(Mul(x, z), Mul(w, y))),
           Two(Add(Mul(x, y), Mul(w, z))),
           One(Add(Mul(x, x), Mul(z, z))),
           Two(Sub(Mul(y, z), Mul(w, x))),
           Two(Sub(Mul(x, z), Mul(w, y))),
           Two(Add(Mul(y, z), Mul(w, x))),
           One(Add(Mul(x, x), Mul(y, y))) >>
\* ------------------------------------------------------- intrinsics text
\* A text is a sequence of characters.  str.split() cuts it at runs of
\* whitespace and yields no empty token.
Whitespace == {" ", "\n", "\t"}

RECURSIVE SplitFrom(_, _, _, _)
SplitFrom(text, i, cur, out) ==
    IF i > Len(text)
    THEN IF cur = << >> THEN out ELSE Append(out, cur)
    ELSE IF text[i] \in Whitespace
    THEN SplitFrom(text, i + 1, << >>,
                   IF cur = << >> THEN out ELSE Append(out, cur))
    ELSE SplitFrom(text, i + 1, Append(cur, text[i]), out)

\* f.read().split()
Split(text) == SplitFrom(text, 1, << >>, << >>)

\* Mutant: commas are left as they are.
Replace_Nothing(tok) == tok

\* t.replace(',', '.'): every comma of the token.
Replace(tok) == [i \in 1..Len(tok) |-> IF tok[i] = "," THEN "." ELSE tok[i]]

DigitChars == <<"0", "1", "2", "3", "4", "5", "6", "7", "8", "9">>
IsDigit(c) == \E i \in 1..10 : DigitChars[i] = c
DigitOf(c) == (CHOOSE i \in 1..10 : DigitChars[i] = c) - 1

\* The integer the digits of s spell, the point skipped.
RECURSIVE DigitsValue(_, _, _)
DigitsValue(s, i, acc) ==
    IF i > Len(s) THEN acc
    ELSE IF IsDigit(s[i]) THEN DigitsValue(s, i + 1, 10 * acc + DigitOf(s[i]))
    ELSE DigitsValue(s, i + 1, acc)

\* The conversion of a str to float by np.array(vals, dtype=float), for
\* strings of digits, points, signs and other characters: an optional
\* sign, then digits with at most one point and at least one digit.
Float(tok) ==
    LET signed == tok # << >> /\ tok[1] \in {"-", "+"}
        body == IF signed THEN Tail(tok) ELSE tok
        points == {i \in 1..Len(body) : body[i] = "."}
        digits == {i \in 1..Len(body) : IsDigit(body[i])}
        after == IF points = {} THEN 0
                 ELSE Len(body) - (CHOOSE i \in points : TRUE)
    IN  IF /\ Cardinality(points) <= 1
           /\ digits # {}
           /\ points \cup digits = 1..Len(body)
        THEN [ok |-> TRUE,
              val |-> Ratio((IF signed /\ tok[1] = "-" THEN -1 ELSE 1)
                                * DigitsValue(body, 1, 0), 10 ^ after)]
        ELSE [ok |-> FALSE, val |-> NaN]

\* read_intrinsics_txt(path), text being what the file holds: a value that
\* does not parse, or a number of values other than nine, raises ValueError.
read_intrinsics_txt(text) ==
    LET tokens == Split(text)
        vals == [i \in 1..Len(tokens) |-> Float(Replace(tokens[i]))]
    IN  IF \E i \in 1..Len(vals) : ~vals[i].ok THEN Failure("ValueError")
        ELSE IF Len(vals) # 9 THEN Failure("ValueError")
        ELSE Value(Reshape([i \in 1..9 |-> vals[i].val]), "")

\* ----------------------------------------------------- pose-math inputs
MaxEntry == 1
MaxTokens == 10

Entries == (-MaxEntry)..MaxEntry
Signs == {-1, 0, 1}

Dot(R, i, j) ==
    R[3 * i + 1] * R[3 * j + 1] + R[3 * i + 2] * R[3 * j + 2]
        + R[3 * i + 3] * R[3 * j + 3]

Det(R) ==
    R[1] * (R[5] * R[9] - R[6] * R[8])
        - R[2] * (R[4] * R[9] - R[6] * R[7])
        + R[3] * (R[4] * R[8] - R[5] * R[7])

\* R is a rotation matrix: orthonormal rows and determinant 1.
IsRotation(R) ==
    /\ \A i, j \in 0..2 : Dot(R, i, j) = IF i = j THEN 1 ELSE 0
    /\ Det(R) = 1

\* The 24 rotations that map the coordinate axes to one another: the
\* identity, the quarter and half turns about each axis and their products.
Rotations == {R \in [1..9 -> Signs] : IsRotation(R)}

\* Matrices that are no rotations: any diagonal with no, skew or symmetric
\* off-diagonal entries.
Others ==
    { [k \in 1..9 |-> IF k \in {1, 5, 9} THEN D[k] ELSE O[k]] :
        D \in [{1, 5, 9} -> Entries],
        O \in {ZeroMat, RotZ90, <<0, 1, 1, 1, 0, 1, 1, 1, 0>>} }

Matrices == Rotations \cup Others

\* A token as a tool may have written it, and the number it spells if
\* its comma is read as a decimal point.
Spelled(chars, n, d) == [chars |-> chars, num |-> TRUE, val |-> Ratio(n, d)]
Junk(chars) == [chars |-> chars, num |-> FALSE, val |-> NaN]

TokenPool ==
    { Spelled(<<"5", "2", "5", ",", "0">>, 525, 1),
      Spelled(<<"5", "2", "5", ".", "0">>, 525, 1),
      Spelled(<<"3", "2", "0">>, 320, 1),
      Spelled(<<"0", ",", "5">>, 1, 2),
      Spelled(<<",", "2", "5">>, 1, 4),
      Spelled(<<"7", ",">>, 7, 1),
      Spelled(<<"-", "1", ",", "5">>, -3, 2),
      Junk(<<",">>),
      Junk(<<"1", ",", "2", ",", "5">>),
      Junk(<<"1", ".", "2", ",", "5">>),
      Junk(<<"-">>),
      Junk(<<"x">>) }

\* 525,0 0,0 320,0 / 0,0 525,0 240,0 / 0,0 0,0 1,0
ExampleTokens ==
    LET f == Spelled(<<"5", "2", "5", ",", "0">>, 525, 1)
        o == Spelled(<<"0", ",", "0">>, 0, 1)
        cx == Spelled(<<"3", "2", "0", ",", "0">>, 320, 1)
        cy == Spelled(<<"2", "4", "0", ",", "0">>, 240, 1)
        i == Spelled(<<"1", ",", "0">>, 1, 1)
    IN  <<f, o, cx, o, f, cy, o, o, i>>

\* Up to MaxTokens tokens of the example, repeated from its start, one of
\* them replaced by a token of the pool (none if at = 0).
TokenLists ==
    { [i \in 1..n |-> IF i = at THEN e ELSE ExampleTokens[((i - 1) % 9) + 1]] :
        n \in 0..MaxTokens, at \in 0..MaxTokens, e \in TokenPool }

\* How the tokens are laid out: on one line, three to a line, or with tabs
\* and blanks around and between them.
Layouts == {"line", "rows", "padded"}

Gap(layout, i) ==
    IF layout = "line" THEN <<" ">>
    ELSE IF layout = "rows" THEN (IF i % 3 = 0 THEN <<"\n">> ELSE <<" ">>)
    ELSE <<"\t", " ">>

RECURSIVE Laid(_, _, _)
Laid(toks, i, layout) ==
    IF i > Len(toks) THEN IF layout = "line" THEN << >> ELSE <<"\n">>
    ELSE toks[i].chars
            \o (IF i < Len(toks) THEN Gap(layout, i) ELSE << >>)
            \o Laid(toks, i + 1, layout)

Text(toks, layout) ==
    (IF layout = "padded" THEN <<" ">> ELSE << >>) \o Laid(toks, 1, layout)

IntrinsicsTexts ==
    { [text |-> Text(toks, layout), tokens |-> toks] :
        toks \in TokenLists, layout \in Layouts }

\* ------------------------------------------------------ pose-math calls
InitMath ==
    /\ NoGateway
    /\ NoPipeline
    /\ \/ called = "rotation_matrix_to_quaternion" /\ given \in Matrices
       \/ called = "read_intrinsics_txt" /\ given \in IntrinsicsTexts
    /\ returned = Pending

MatrixToQuaternion ==
    /\ called = "rotation_matrix_to_quaternion"
    /\ returned = Pending
    /\ returned' = rotation_matrix_to_quaternion(given)
    /\ UNCHANGED <<vars, pipe, called, given>>

\* quat_to_rotm applied to the quaternion just returned.
BackToMatrix ==
    /\ called = "rotation_matrix_to_quaternion"
    /\ returned.exc = "none"
    /\ called' = "quat_to_rotm"
    /\ returned' = Value(quat_to_rotm(returned.value), "")
    /\ UNCHANGED <<vars, pipe, given>>

ReadIntrinsics ==
    /\ called = "read_intrinsics_txt"
    /\ returned = Pending
    /\ returned' = read_intrinsics_txt(given.text)
    /\ UNCHANGED <<vars, pipe, called, given>>

NextMath ==
    \/ MatrixToQuaternion
    \/ BackToMatrix
    \/ ReadIntrinsics

SpecMath == InitMath /\ [][NextMath]_<<vars, pipe, calc>>

\* -------------------------------------------------- pose-math properties
\* The text's tokens all spell numbers.
AllNumeric(toks) == \A i \in 1..Len(toks) : toks[i].num

\* C23: read_intrinsics_txt returns the 3x3 row-major matrix of the numbers
\* the tokens spell, commas read as decimal points, when the text has
\* exactly nine numeric tokens; for a text with fewer or more tokens or
\* with a token that is no number it raises an error and returns nothing.
C23_IntrinsicsParsed ==
    (called = "read_intrinsics_txt" /\ returned # Pending) =>
        IF Len(given.tokens) = 9 /\ AllNumeric(given.tokens)
        THEN /\ returned.exc = "none"
             /\ returned.value =
                    [r \in 1..3 |->
                        [c \in 1..3 |-> given.tokens[3 * (r - 1) + c].val]]
        ELSE /\ returned.exc # "none"
             /\ returned.value = << >>

\* A text of nine tokens laid out three to a line, one of them 0,5, has
\* been read: the matrix holds one half at that token's place.
C23_Witness ==
    /\ called = "read_intrinsics_txt"
    /\ returned.exc = "none"
    /\ given.tokens[4].chars = <<"0", ",", "5">>
    /\ given.text[16] = "\n"
    /\ returned.value[2][1] = Num(1, 2, 1)
    /\ returned.value[1][1] = Num(525, 1, 1)

\* The call of rotation_matrix_to_quaternion has returned.
Converted == called = "rotation_matrix_to_quaternion" /\ returned # Pending

\* C25: rotation_matrix_to_quaternion takes the direct formula exactly when
\* the trace is positive; otherwise the branch it takes is that of a
\* diagonal entry no smaller than the other two, ties included.
C25_BranchOfLargestDiagonal ==
    Converted =>
        /\ returned.via = "trace" <=> given[1] + given[5] + given[9] > 0
        /\ returned.via = "M00" => given[1] >= given[5] /\ given[1] >= given[9]
        /\ returned.via = "M11" => given[5] >= given[1] /\ given[5] >= given[9]
        /\ returned.via = "M22" => given[9] >= given[1] /\ given[9] >= given[5]
        /\ returned.via \in {"trace", "M00", "M11", "M22"}

\* A matrix whose first two diagonal entries are equal and the largest,
\* with a trace that is not positive, went through the branch of M[1,1].
C25_Witness ==
    /\ Converted
    /\ given[1] = given[5]
    /\ given[5] > given[9]
    /\ given[1] + given[5] + given[9] <= 0
    /\ returned.via = "M11"
    /\ returned.value[2].n > 0

\* C26: rotation_matrix_to_quaternion raises on the all-zero matrix and on
\* no other matrix.
C26_FailsOnZeroMatrixOnly ==
    Converted => (returned.exc # "none" <=> given = ZeroMat)

\* C27: for a rotation matrix R, quat_to_rotm applied to the quaternion
\* rotation_matrix_to_quaternion(R) returns is R; both use the order
\* (x, y, z, w), so the quaternion of the quarter turn about z has equal
\* z and w components and no x and y.
C27_RoundTrip ==
    /\ (Converted /\ given = RotZ90) =>
            /\ returned.value[1] = Zero /\ returned.value[2] = Zero
            /\ returned.value[3] = returned.value[4]
            /\ returned.value[4] = Num(1, 2, 2)
    /\ (called = "quat_to_rotm" /\ IsRotation(given)) =>
            /\ returned.exc = "none"
            /\ returned.value = [k \in 1..9 |-> Whole(given[k])]

\* The quarter turn about the z axis has made the round trip.
C27_Witness ==
    /\ called = "quat_to_rotm"
    /\ given = RotZ90
    /\ returned.value[2] = Whole(-1)
    /\ returned.value[4] = Whole(1)

====
